---- MODULE Spec2Model ----
(***************************************************************************)
(* A model of the synchronisation core of lux-patcher: the path checksum   *)
(* (src/src/crc.rs), the metadata cache and its text store                 *)
(* (src/src/cache.rs), the per-file decision engine                        *)
(* (src/src/patcher.rs), the download pipeline (src/src/download.rs) and   *)
(* the path token (src/src/boot.rs).                                       *)
(*                                                                         *)
(* Text is modelled as sequences of byte values (ASCII codes).  A u32 is   *)
(* modelled as the pair <<hi, lo>> of its 16-bit halves, because the       *)
(* model checker's integers are narrower than 32 unsigned bits.            *)
(***************************************************************************)
EXTENDS Integers, Sequences, FiniteSets, TLC

VARIABLES
    crcIn,      \* the two byte sequences handed to calculate_crc
    crcOut,     \* Some(their checksums), None before calculate_crc has run
    cache,      \* the entries of the Cache in use: a function from keys to entries
    store,      \* the cache file: None while it does not exist, or Some(bytes)
    inserted,   \* the Cache::insert calls made so far: <<key, entry>> in order
    loaded,     \* None, or Some(outcome of Cache::load into a fresh Cache)
    calls,      \* how many ensure_meta / ensure_file calls the run has made
    last,       \* the last ensure_meta / ensure_file call: inputs and effects
    lastOp,     \* the last load / insert / get / save on the cache in use
    dl,         \* one Downloader::download call: its position and the files it touches
    resolveIn,  \* the Token and the input handed to Token::resolve
    resolveOut  \* Some(what Token::resolve returned), None before it has run

vars ==
    <<crcIn, crcOut, cache, store, inserted, loaded, calls, last, lastOp, dl,
      resolveIn, resolveOut>>

crcVars == <<crcIn, crcOut>>
cacheVars == <<cache, store, inserted, loaded>>
engineVars == <<calls, last>>
downloadVars == <<dl>>
tokenVars == <<resolveIn, resolveOut>>

\* Option<T>: None, or Some(x)
None == <<>>
Some(x) == <<x>>

\* ------------------------------------------------------------------ bounds
\* longest path handed to calculate_crc
MaxPathLen == 2
\* most Cache::insert calls before the cache is saved
MaxInserts == 2
\* most ensure_meta / ensure_file calls of one run
MaxCalls == 2

\* ------------------------------------------------------------------ bytes
SLASH == 47
BACKSLASH == 92
UpperA == 65
UpperZ == 90
LowerA == 97

\* the bytes paths are drawn from: both slashes, a letter in both cases and
\* the last upper-case letter
CrcAlphabet == {SLASH, BACKSLASH, UpperA, LowerA, UpperZ}


RECURSIVE SeqsUpTo(_, _)
SeqsUpTo(S, n) ==
    IF n = 0 THEN {<<>>}
    ELSE LET shorter == SeqsUpTo(S, n - 1)
         IN  shorter \cup {Append(s, b) : s \in {t \in shorter : Len(t) = n - 1}, b \in S}

\* pairs of byte sequences of one length
CrcInputs ==
    {pq \in SeqsUpTo(CrcAlphabet, MaxPathLen) \X SeqsUpTo(CrcAlphabet, MaxPathLen) :
        Len(pq[1]) = Len(pq[2])}

\* ------------------------------------------------------------- 16-bit words
W16 == 65536
Byte == 0..255
U32 == (0..(W16 - 1)) \X (0..(W16 - 1))

RECURSIVE Xor(_, _)
Xor(a, b) ==
    IF a = 0 THEN b
    ELSE IF b = 0 THEN a
    ELSE ((a + b) % 2) + 2 * Xor(a \div 2, b \div 2)

\* u32 ^ u32 on <<hi, lo>> pairs
XorU32(x, y) == <<Xor(x[1], y[1]), Xor(x[2], y[2])>>

\* (u32 << 1), the bit shifted out of bit 31 is lost
Shl1(x) == <<(x[1] * 2 + x[2] \div 32768) % W16, (x[2] * 2) % W16>>

\* ---------------------------------------------------------------- crc.rs
CRC_POLY == <<1217, 7607>>          \* 0x04C11DB7
CRC_INIT == <<65535, 65535>>        \* 0xFFFFFFFF
CRC_FXOR == <<0, 0>>                \* 0x00000000

\* one pass of the loop body of update_crc
crc_round(crc) ==
    IF crc[1] < 32768 THEN Shl1(crc) ELSE XorU32(Shl1(crc), CRC_POLY)

\* the loop "for _i in 0..8" of update_crc, n passes left
crc_rounds[n \in 0..8, crc \in U32] ==
    IF n = 0 THEN crc ELSE crc_rounds[n - 1, crc_round(crc)]

\* u32::from(b) << 24 lands in the upper byte of the upper half
update_crc(crc, b) == crc_rounds[8, <<Xor(crc[1], b * 256), crc[2]>>]

\* the clean-up calculate_crc performs on one input byte
crc_cleanup_nolower(b) == IF b = SLASH THEN BACKSLASH ELSE b

crc_cleanup(b) ==
    LET b1 == IF b = SLASH THEN BACKSLASH ELSE b
    IN  IF b1 >= UpperA /\ b1 <= UpperZ THEN b1 + (LowerA - UpperA) ELSE b1

\* the loop "for bp in path" of calculate_crc
crc_path_loop[crc \in U32, path \in Seq(Byte)] ==
    IF path = <<>> THEN crc
    ELSE crc_path_loop[update_crc(crc, crc_cleanup(Head(path))), Tail(path)]

\* the loop "for _i in 0..4" of calculate_crc, n passes left
crc_pad_loop[n \in 0..4, crc \in U32] ==
    IF n = 0 THEN crc ELSE crc_pad_loop[n - 1, update_crc(crc, 0)]

calculate_crc_nopad(path) == XorU32(crc_path_loop[CRC_INIT, path], CRC_FXOR)

calculate_crc(path) ==
    XorU32(crc_pad_loop[4, crc_path_loop[CRC_INIT, path]], CRC_FXOR)

\* ------------------------------------------------------------------ text
COMMA == 44
NEWLINE == 10
CR == 13
PERIOD == 46
Digit0 == 48
Digit9 == 57

RECURSIVE FlattenSeq(_)
FlattenSeq(ss) == IF ss = <<>> THEN <<>> ELSE Head(ss) \o FlattenSeq(Tail(ss))

\* the index of the first b in s, or 0
FirstIndexOf(s, b) ==
    IF \E i \in 1..Len(s) : s[i] = b
    THEN CHOOSE i \in 1..Len(s) : s[i] = b /\ \A j \in 1..(i - 1) : s[j] # b
    ELSE 0

\* str::split(sep): the pieces between separators, always at least one
RECURSIVE SplitOn(_, _)
SplitOn(s, sep) ==
    LET i == FirstIndexOf(s, sep)
    IN  IF i = 0 THEN <<s>>
        ELSE <<SubSeq(s, 1, i - 1)>> \o SplitOn(SubSeq(s, i + 1, Len(s)), sep)

\* BufRead::lines(): pieces ended by '\n' (a '\r' before it dropped too); what
\* follows the last '\n' is a line only when it is not empty
RECURSIVE ReadLines(_)
ReadLines(text) ==
    LET i == FirstIndexOf(text, NEWLINE)
        strip(l) == IF l # <<>> /\ l[Len(l)] = CR THEN SubSeq(l, 1, Len(l) - 1) ELSE l
    IN  IF text = <<>> THEN <<>>
        ELSE IF i = 0 THEN <<text>>
        ELSE <<strip(SubSeq(text, 1, i - 1))>> \o ReadLines(SubSeq(text, i + 1, Len(text)))

\* String's Ord: byte-wise lexicographic, a proper prefix first
RECURSIVE StrLess(_, _)
StrLess(a, b) ==
    IF b = <<>> THEN FALSE
    ELSE IF a = <<>> THEN TRUE
    ELSE IF Head(a) # Head(b) THEN Head(a) < Head(b)
    ELSE StrLess(Tail(a), Tail(b))

IsDigits(s) == \A i \in 1..Len(s) : s[i] >= Digit0 /\ s[i] <= Digit9

\* an unsigned number in decimal, no leading zeros ("{}" of an integer)
RECURSIVE FormatDecimal(_)
FormatDecimal(n) ==
    IF n < 10 THEN <<Digit0 + n>>
    ELSE Append(FormatDecimal(n \div 10), Digit0 + (n % 10))

RECURSIVE DigitsValue(_)
DigitsValue(s) ==
    IF s = <<>> THEN 0
    ELSE 10 * DigitsValue(SubSeq(s, 1, Len(s) - 1)) + (s[Len(s)] - Digit0)

\* n in exactly w decimal digits, zeros in front
RECURSIVE FormatPadded(_, _)
FormatPadded(n, w) ==
    IF w = 0 THEN <<>>
    ELSE Append(FormatPadded(n \div 10, w - 1), Digit0 + (n % 10))

\* str::parse::<u32>() on text of at most nine bytes: decimal digits, at least
\* one; Some(value), or None for Err
ParseU32(s) == IF s # <<>> /\ IsDigits(s) THEN Some(DigitsValue(s)) ELSE None

\* ----------------------------------------------------------------- times
\* An f64 count of seconds is modelled as a whole number of ticks of 1e-7 s:
\* finer than the six decimals the store keeps.
TicksPerMicro == 10
MicrosPerSecond == 1000000

\* "{:.6}" of an f64: rounded to the nearest microsecond, six decimals
FormatF64(ticks) ==
    LET micros == (ticks + (TicksPerMicro \div 2)) \div TicksPerMicro
    IN  FormatDecimal(micros \div MicrosPerSecond) \o <<PERIOD>>
            \o FormatPadded(micros % MicrosPerSecond, 6)

\* str::parse::<f64>() on text made of digits and '.': digits, at most one
\* '.', at least one digit, gives Some(ticks); anything else None.  Decimals past the
\* seventh are below the model's resolution.
ParseF64(s) ==
    LET dot == FirstIndexOf(s, PERIOD)
        whole == IF dot = 0 THEN s ELSE SubSeq(s, 1, dot - 1)
        frac == IF dot = 0 THEN <<>> ELSE SubSeq(s, dot + 1, Len(s))
        frac7 == SubSeq(frac \o <<Digit0, Digit0, Digit0, Digit0, Digit0, Digit0, Digit0>>, 1, 7)
    IN  IF IsDigits(whole) /\ IsDigits(frac) /\ Len(whole) + Len(frac) > 0
        THEN Some(DigitsValue(whole) * TicksPerMicro * MicrosPerSecond + DigitsValue(frac7))
        ELSE None

\* --------------------------------------------------------------- digests
\* An MD5Sum is modelled as HashLen bytes instead of sixteen.
HashLen == 1

HexDigit(n) == IF n < 10 THEN Digit0 + n ELSE LowerA + (n - 10)

HexValue(b) ==
    IF b >= Digit0 /\ b <= Digit9 THEN b - Digit0
    ELSE IF b >= LowerA /\ b <= LowerA + 5 THEN b - LowerA + 10
    ELSE IF b >= UpperA /\ b <= UpperA + 5 THEN b - UpperA + 10
    ELSE -1

\* "{:?}" of an MD5Sum: two lower-case hex digits per byte
FormatHash(h) ==
    FlattenSeq([i \in 1..Len(h) |-> <<HexDigit(h[i] \div 16), HexDigit(h[i] % 16)>>])

\* str::parse::<MD5Sum>(): exactly two hex digits per byte of the digest
ParseHash(s) ==
    IF Len(s) = 2 * HashLen /\ \A i \in 1..Len(s) : HexValue(s[i]) >= 0
    THEN Some([i \in 1..HashLen |-> 16 * HexValue(s[2 * i - 1]) + HexValue(s[2 * i])])
    ELSE None

\* --------------------------------------------------------------- cache.rs
\* struct CacheEntry { mtime: Option<f64>, size: u32, hash: MD5Sum }
CacheEntry(mtime, size, hash) == [mtime |-> mtime, size |-> size, hash |-> hash]

\* impl Display for CacheEntry
FormatCacheEntry(e) ==
    (IF e.mtime # None THEN FormatF64(e.mtime[1]) ELSE <<>>)
        \o <<COMMA>> \o FormatDecimal(e.size) \o <<COMMA>> \o FormatHash(e.hash)

\* CacheKey::new
CacheKey_new(v) == [i \in 1..Len(v) |-> IF v[i] = SLASH THEN BACKSLASH ELSE v[i]]

\* Cache::new: no entries.  A cache is a function from keys to entries.
Cache_new == <<>>

\* Cache::get
Cache_get(entries, key) ==
    IF key \in DOMAIN entries THEN Some(entries[key]) ELSE None

\* Cache::insert
Cache_insert_keep(entries, key, value) ==
    IF key \in DOMAIN entries THEN entries
    ELSE [k \in DOMAIN entries \cup {key} |-> IF k = key THEN value ELSE entries[k]]

Cache_insert(entries, key, value) ==
    [k \in DOMAIN entries \cup {key} |-> IF k = key THEN value ELSE entries[k]]

\* the BTreeMap's iteration order: keys ascending
RECURSIVE KeysAscending(_)
KeysAscending(keys) ==
    IF keys = {} THEN <<>>
    ELSE LET least == CHOOSE k \in keys : \A o \in keys \ {k} : StrLess(k, o)
         IN  <<least>> \o KeysAscending(keys \ {least})

\* impl Display for Cache: one line "key,entry\n" per entry, keys ascending
FormatCache(entries) ==
    LET keys == KeysAscending(DOMAIN entries)
    IN  FlattenSeq([i \in 1..Len(keys) |->
            keys[i] \o <<COMMA>> \o FormatCacheEntry(entries[keys[i]]) \o <<NEWLINE>>])

\* the backing store: None while no file exists, or Some(the file's bytes)

\* The body of the loop of Cache::load on one line.  A missing field or an
\* unparsable size or hash panics (unwrap); an unparsable mtime is None (ok()).
LoadLine_skip(entries, line) ==
    LET parts == SplitOn(line, COMMA)
    IN  IF Len(parts) < 4 \/ ParseU32(parts[3]) = None \/ ParseHash(parts[4]) = None
        THEN [status |-> "Ok", entries |-> entries]
        ELSE [status |-> "Ok",
              entries |-> Cache_insert(entries, parts[1],
                              CacheEntry(ParseF64(parts[2]), ParseU32(parts[3])[1],
                                         ParseHash(parts[4])[1]))]

LoadLine(entries, line) ==
    LET parts == SplitOn(line, COMMA)
    IN  IF Len(parts) < 4 \/ ParseU32(parts[3]) = None \/ ParseHash(parts[4]) = None
        THEN [status |-> "panic", entries |-> entries]
        ELSE [status |-> "Ok",
              entries |-> Cache_insert(entries, parts[1],
                              CacheEntry(ParseF64(parts[2]), ParseU32(parts[3])[1],
                                         ParseHash(parts[4])[1]))]

RECURSIVE LoadLines(_, _)
LoadLines(entries, lines) ==
    IF lines = <<>> THEN [status |-> "Ok", entries |-> entries]
    ELSE LET next == LoadLine(entries, Head(lines))
         IN  IF next.status = "panic" THEN next
             ELSE LoadLines(next.entries, Tail(lines))

\* Cache::load of a store that is absent, or can be opened and read
Cache_load(entries, file) ==
    IF file = None THEN [status |-> "Ok", entries |-> entries]
    ELSE LoadLines(entries, ReadLines(file[1]))

\* ------------------------------------------------------------ patcher.rs
\* digests and file lines of the manifests
H1 == <<26>>
H2 == <<181>>

\* txt::FileLine, as far as ensure reads it
FileLine(hash, filesize) == [hash |-> hash, filesize |-> filesize]

\* PatcherConfig::downloaddirectory
downloaddirectory == <<118>>                    \* "v"

\* PatcherKeys, as PatcherBuilder::build fills it
keys_download_none == <<>>

keys_download == downloaddirectory \o <<SLASH>>
keys_install == <<>>

\* "Check whether the file needs to be downloaded"
needs_download_size(entries, cache_key, f) ==
    LET c == Cache_get(entries, cache_key)
    IN  ~(c # None /\ c[1].hash = f.hash /\ c[1].size = f.filesize)

needs_download_mtime(entries, cache_key, f) ==
    LET c == Cache_get(entries, cache_key)
    IN  ~(c # None /\ c[1].hash = f.hash /\ c[1].mtime # None)

needs_download(entries, cache_key, f) ==
    LET c == Cache_get(entries, cache_key)
    IN  ~(c # None /\ c[1].hash = f.hash)

\* what the file system and the network do to one fetch
IoOutcomes == {"ok", "download_failed", "metadata_failed"}

\* What a call hands back: the Result, the cache after it, and how often it
\* called Downloader::download, Cache::get and Cache::insert.
Effect(ret, entries, downloads, gets, inserts) ==
    [ret |-> ret, entries |-> entries, downloads |-> downloads, gets |-> gets,
     inserts |-> inserts]

\* "Download the file": download, read the metadata back, insert
fetch_keep(entries, cache_key, f, io, mtime) ==
    IF io = "ok"
    THEN Effect("Ok(true)",
                Cache_insert_keep(entries, cache_key, CacheEntry(Some(mtime), f.filesize, f.hash)),
                1, 1, 1)
    ELSE Effect("Err", entries, 1, 1, 0)

fetch_swallow(entries, cache_key, f, io, mtime) ==
    IF io = "ok"
    THEN Effect("Ok(true)",
                Cache_insert(entries, cache_key, CacheEntry(Some(mtime), f.filesize, f.hash)),
                1, 1, 1)
    ELSE Effect("Ok(true)", entries, 1, 1, 0)

fetch_early_insert(entries, cache_key, f, io, mtime) ==
    IF io = "ok"
    THEN Effect("Ok(true)",
                Cache_insert(entries, cache_key, CacheEntry(Some(mtime), f.filesize, f.hash)),
                1, 1, 1)
    ELSE IF io = "metadata_failed"
    THEN Effect("Err", Cache_insert(entries, cache_key, CacheEntry(None, f.filesize, f.hash)),
                1, 1, 0)
    ELSE Effect("Err", entries, 1, 1, 0)

fetch(entries, cache_key, f, io, mtime) ==
    IF io = "ok"
    THEN Effect("Ok(true)",
                Cache_insert(entries, cache_key, CacheEntry(Some(mtime), f.filesize, f.hash)),
                1, 1, 1)
    ELSE Effect("Err", entries, 1, 1, 0)

\* the else branch of ensure: the file is not in the manifest
not_in_manifest_err(entries) == Effect("Err", entries, 0, 0, 0)

not_in_manifest(entries) == Effect("Ok(false)", entries, 0, 0, 0)

\* Patcher::ensure.  get_url joins a path of hex digits to the patch server's
\* http(s) base URL, which does not fail.
ensure_nobase(entries, manifest, base_key, file, io, mtime) ==
    IF file \in DOMAIN manifest
    THEN LET f == manifest[file]
             cache_key == CacheKey_new(file)
         IN  IF needs_download(entries, cache_key, f)
             THEN fetch(entries, cache_key, f, io, mtime)
             ELSE Effect("Ok(true)", entries, 0, 1, 0)
    ELSE not_in_manifest(entries)

ensure(entries, manifest, base_key, file, io, mtime) ==
    IF file \in DOMAIN manifest
    THEN LET f == manifest[file]
             cache_key == CacheKey_new(base_key \o file)
         IN  IF needs_download(entries, cache_key, f)
             THEN fetch(entries, cache_key, f, io, mtime)
             ELSE Effect("Ok(true)", entries, 0, 1, 0)
    ELSE not_in_manifest(entries)

\* Patcher::ensure_meta
ensure_meta(entries, manifest, file, io, mtime) ==
    ensure(entries, manifest, keys_download, file, io, mtime)

\* the branch of Patcher::ensure_file for a file of the pack index
\* The info! line reads pki.archives[meta.pack_file as usize], which panics on
\* an index past the end; then Ok(false).
ensure_file_archived_true(entries, pki, meta) ==
    IF meta.pack_file < Len(pki.archives)
    THEN Effect("Ok(true)", entries, 0, 0, 0)
    ELSE Effect("panic", entries, 0, 0, 0)

ensure_file_archived(entries, pki, meta) ==
    IF meta.pack_file < Len(pki.archives)
    THEN Effect("Ok(false)", entries, 0, 0, 0)
    ELSE Effect("panic", entries, 0, 0, 0)

\* ------------------------------------------------------- inputs of a run
FileA == <<LowerA>>                             \* "a"
FileUpperA == <<UpperA>>                        \* "A"
FileVA == <<118, SLASH, LowerA>>                \* "v/a"
Files == {FileA, FileUpperA, FileVA}

\* calculate_crc of each file name of the run, computed once
FileCrc ==
    (FileA :> calculate_crc(FileA)) @@ (FileUpperA :> calculate_crc(FileUpperA))
        @@ (FileVA :> calculate_crc(FileVA))

\* Patcher::ensure_file; FileCrc[file] is calculate_crc(file.as_bytes())
ensure_file_unshadowed(entries, pki, manifest, file, io, mtime) ==
    ensure(entries, manifest, keys_install, file, io, mtime)

ensure_file(entries, pki, manifest, file, io, mtime) ==
    IF FileCrc[file] \in DOMAIN pki.files
    THEN ensure_file_archived(entries, pki, pki.files[FileCrc[file]])
    ELSE ensure(entries, manifest, keys_install, file, io, mtime)

ManifestEmpty == <<>>
ManifestOne == (FileA :> FileLine(H1, 10)) @@ (FileVA :> FileLine(H2, 20))
ManifestResized == (FileA :> FileLine(H1, 20)) @@ (FileUpperA :> FileLine(H2, 10))
ManifestChanged == (FileA :> FileLine(H2, 10))
Manifests == {ManifestEmpty, ManifestOne, ManifestResized, ManifestChanged}

\* PackIndexFile: the archives and the files map from checksum to FileRef;
\* the last one names an archive the index does not list
PackPath == <<112>>                             \* "p"
FileRef(category, pack_file) == [category |-> category, pack_file |-> pack_file]
PkiEmpty == [archives |-> <<>>, files |-> <<>>]
PkiA == [archives |-> <<[path |-> PackPath]>>, files |-> (FileCrc[FileA] :> FileRef(0, 0))]
PkiVA == [archives |-> <<[path |-> PackPath]>>, files |-> (FileCrc[FileVA] :> FileRef(0, 0))]
PkiDangling ==
    [archives |-> <<[path |-> PackPath]>>, files |-> (FileCrc[FileVA] :> FileRef(0, 1))]
Pkis == {PkiEmpty, PkiA, PkiVA, PkiDangling}

\* modification times the file system reports, in ticks
FreshMtimes == {10000012, 20000000}

\* the cache file an earlier run left: an entry of the staging area without a
\* modification time, and an entry of the install area
PriorEntries ==
    (CacheKey_new(keys_download \o FileA) :> CacheEntry(None, 30, H1))
        @@ (CacheKey_new(keys_install \o FileA) :> CacheEntry(Some(20000000), 10, H2))
PriorStores == {None, Some(FormatCache(PriorEntries))}

NoCall ==
    [op |-> "none", file |-> <<>>, manifest |-> <<>>, pki |-> PkiEmpty, io |-> "unused",
     mtime |-> 0, before |-> <<>>, ret |-> "none", downloads |-> 0, gets |-> 0,
     inserts |-> 0]

\* The record of a call; what the file system did is kept only when the call
\* reached Downloader::download.
Call(op, file, manifest, pki, io, mtime, before, effect) ==
    [op |-> op, file |-> file, manifest |-> manifest, pki |-> pki,
     io |-> IF effect.downloads > 0 THEN io ELSE "unused",
     mtime |-> IF effect.inserts > 0 THEN mtime ELSE 0,
     before |-> before, ret |-> effect.ret,
     downloads |-> effect.downloads, gets |-> effect.gets, inserts |-> effect.inserts]

\* the variables of the other specifications while they are not in use
NoOp ==
    [op |-> "none", n |-> 0, io |-> "unused", key |-> <<>>, before |-> <<>>,
     storeBefore |-> None, ret |-> "none", got |-> None]
NoDownload == [pc |-> "idle"]
NoToken == [install_path |-> <<>>, input |-> <<>>]

\* ------------------------------------------------- engine specification
\* A run: the cache is loaded from the cache file, then files are ensured.
Init ==
    /\ store \in PriorStores
    /\ cache = Cache_load(Cache_new, store).entries
    /\ calls = 0
    /\ last = NoCall
    /\ inserted = <<>>
    /\ loaded = None
    /\ crcIn = <<<<>>, <<>>>>
    /\ crcOut = None
    /\ lastOp = NoOp
    /\ dl = NoDownload
    /\ resolveIn = NoToken
    /\ resolveOut = None

EnsureMeta ==
    /\ calls < MaxCalls
    /\ \E manifest \in Manifests, file \in Files, io \in IoOutcomes, mtime \in FreshMtimes :
          LET effect == ensure_meta(cache, manifest, file, io, mtime)
          IN  /\ cache' = effect.entries
              /\ last' = Call("ensure_meta", file, manifest, PkiEmpty, io, mtime, cache, effect)
    /\ calls' = calls + 1
    /\ UNCHANGED <<store, inserted, loaded, crcVars, lastOp, downloadVars, tokenVars>>

EnsureFile ==
    /\ calls < MaxCalls
    /\ \E pki \in Pkis, manifest \in Manifests, file \in Files, io \in IoOutcomes,
          mtime \in FreshMtimes :
          LET effect == ensure_file(cache, pki, manifest, file, io, mtime)
          IN  /\ cache' = effect.entries
              /\ last' = Call("ensure_file", file, manifest, pki, io, mtime, cache, effect)
    /\ calls' = calls + 1
    /\ UNCHANGED <<store, inserted, loaded, crcVars, lastOp, downloadVars, tokenVars>>

Next == EnsureMeta \/ EnsureFile

Spec == Init /\ [][Next]_vars

\* -------------------------------------------------- cache specification
\* A caller fills a cache through CacheKey::new and Cache::insert, saves it,
\* and a fresh Cache loads the file.
KeyTexts == {<<LowerA>>, <<118, SLASH, LowerA>>, <<66>>, <<LowerA, COMMA, 98>>}

InsertEntries ==
    {CacheEntry(mtime, line.filesize, line.hash) :
        mtime \in {None, Some(10000012), Some(20000000)},
        line \in {FileLine(H1, 10), FileLine(H2, 20)}}

InitCache ==
    /\ cache = Cache_new
    /\ store = None
    /\ inserted = <<>>
    /\ loaded = None
    /\ calls = 0
    /\ last = NoCall
    /\ crcIn = <<<<>>, <<>>>>
    /\ crcOut = None
    /\ lastOp = NoOp
    /\ dl = NoDownload
    /\ resolveIn = NoToken
    /\ resolveOut = None

Insert ==
    /\ store = None
    /\ Len(inserted) < MaxInserts
    /\ \E text \in KeyTexts, value \in InsertEntries :
          /\ cache' = Cache_insert(cache, CacheKey_new(text), value)
          /\ inserted' = Append(inserted, <<CacheKey_new(text), value>>)
    /\ UNCHANGED <<store, loaded, engineVars, crcVars, lastOp, downloadVars, tokenVars>>

\* Cache::save: File::create truncates, write! puts the Display text there
Save ==
    /\ store = None
    /\ store' = Some(FormatCache(cache))
    /\ UNCHANGED <<cache, inserted, loaded, engineVars, crcVars, lastOp, downloadVars, tokenVars>>

\* Cache::new() followed by load of the saved file
LoadFresh ==
    /\ store # None
    /\ loaded = None
    /\ loaded' = Some(Cache_load(Cache_new, store))
    /\ UNCHANGED <<cache, store, inserted, engineVars, crcVars, lastOp, downloadVars, tokenVars>>

NextCache == Insert \/ Save \/ LoadFresh

SpecCache == InitCache /\ [][NextCache]_vars

\* -------------------------------------------------- store specification
\* One cache in use over a cache file that was there before: load, insert,
\* get and save in any order, with the failures the file system can produce.

\* most operations on the cache in one run
MaxOps == 2

\* what the file system does to one load: all fine, File::open fails with an
\* error other than NotFound, or reading fails at the first or the second line
LoadOutcomes == {"ok", "open_failed", "read_failed_first", "read_failed_second"}

\* Cache::load
Cache_load_io_strict(entries, file, io) ==
    IF io = "open_failed" \/ file = None THEN [status |-> "Err", entries |-> entries]
    ELSE IF io = "ok" THEN Cache_load(entries, file)
    ELSE LET lines == ReadLines(file[1])
             k == IF io = "read_failed_first" THEN 0 ELSE 1
             read == SubSeq(lines, 1, IF k < Len(lines) THEN k ELSE Len(lines))
             r == LoadLines(entries, read)
         IN  IF r.status = "panic" THEN r ELSE [status |-> "Err", entries |-> r.entries]

Cache_load_io(entries, file, io) ==
    IF io = "open_failed" THEN [status |-> "Err", entries |-> entries]
    ELSE IF file = None \/ io = "ok" THEN Cache_load(entries, file)
    ELSE LET lines == ReadLines(file[1])
             k == IF io = "read_failed_first" THEN 0 ELSE 1
             read == SubSeq(lines, 1, IF k < Len(lines) THEN k ELSE Len(lines))
             r == LoadLines(entries, read)
         IN  IF r.status = "panic" THEN r ELSE [status |-> "Err", entries |-> r.entries]

\* what the file system does to one save: all fine, File::create fails, a
\* write of the BufWriter's full buffer fails, or the write of what is left in
\* the buffer when the BufWriter is dropped fails; a failed write leaves
\* nothing or half of the text in the file
SaveOutcomes ==
    {"ok", "create_failed", "write_failed_empty", "write_failed_partial",
     "drop_failed_empty", "drop_failed_partial"}

\* Cache::save: File::create truncates, write! goes through a BufWriter, and
\* the BufWriter is dropped without flush(), which discards the error of the
\* last write
Cache_save(entries, file, io) ==
    LET text == FormatCache(entries)
        half == SubSeq(text, 1, Len(text) \div 2)
    IN  CASE io = "create_failed" -> [status |-> "Err", file |-> file]
          [] io = "write_failed_empty" -> [status |-> "Err", file |-> Some(<<>>)]
          [] io = "write_failed_partial" -> [status |-> "Err", file |-> Some(half)]
          [] io = "drop_failed_empty" /\ text # <<>> -> [status |-> "Ok", file |-> Some(<<>>)]
          [] io = "drop_failed_partial" /\ text # <<>> -> [status |-> "Ok", file |-> Some(half)]
          [] OTHER -> [status |-> "Ok", file |-> Some(text)]

\* the lines of cache files
LineFresh == <<LowerA, COMMA>> \o FormatCacheEntry(CacheEntry(Some(10000012), 10, H1))
LineBackslash == <<118, BACKSLASH, LowerA, COMMA>> \o FormatCacheEntry(CacheEntry(None, 10, H1))
LineSlash == <<118, SLASH, LowerA, COMMA>> \o FormatCacheEntry(CacheEntry(None, 20, H2))
LineShort == <<LowerA, COMMA, COMMA, 49, 48>>                           \* "a,,10"
LineBadSize == <<LowerA, COMMA, COMMA, 120, COMMA, 49, 97>>             \* "a,,x,1a"
LineBadHash == <<LowerA, COMMA, COMMA, 49, 48, COMMA, 120, 120>>        \* "a,,10,xx"
LineBadMtime == <<LowerA, COMMA, 120, COMMA, 49, 48, COMMA, 49, 97>>    \* "a,x,10,1a"
LineBlank == <<>>

StoreLines ==
    {<<LineFresh>>, <<LineBackslash>>, <<LineSlash>>, <<LineShort>>, <<LineBadSize>>,
     <<LineBadHash>>, <<LineBadMtime>>, <<LineBlank>>,
     <<LineFresh, LineBackslash>>, <<LineBackslash, LineSlash>>, <<LineFresh, LineShort>>,
     <<LineFresh, LineBadMtime>>, <<LineBadHash, LineFresh>>}

\* the file's text: every line ended by '\n'
StoreText(lines) == FlattenSeq([i \in 1..Len(lines) |-> lines[i] \o <<NEWLINE>>])

StoreFiles == {None, Some(<<>>)} \cup {Some(StoreText(lines)) : lines \in StoreLines}

StoreKeyTexts == {<<LowerA>>, <<118, SLASH, LowerA>>, <<118, BACKSLASH, LowerA>>}
StoreEntries == {CacheEntry(Some(20000000), 20, H2), CacheEntry(None, 10, H1)}

\* the record of an operation on the cache
Op(op, io, key, ret, got) ==
    [op |-> op, n |-> lastOp.n + 1, io |-> io, key |-> key, before |-> cache,
     storeBefore |-> store, ret |-> ret, got |-> got]

\* a panic ends the process
Running == lastOp.n < MaxOps /\ lastOp.ret # "panic"

InitStore ==
    /\ store \in StoreFiles
    /\ cache = Cache_new
    /\ lastOp = NoOp
    /\ inserted = <<>>
    /\ loaded = None
    /\ calls = 0
    /\ last = NoCall
    /\ crcIn = <<<<>>, <<>>>>
    /\ crcOut = None
    /\ dl = NoDownload
    /\ resolveIn = NoToken
    /\ resolveOut = None

StoreLoad ==
    /\ Running
    /\ \E io \in LoadOutcomes :
          LET r == Cache_load_io(cache, store, io)
          IN  /\ cache' = r.entries
              /\ lastOp' = Op("load", io, <<>>, r.status, None)
    /\ UNCHANGED <<store, inserted, loaded, engineVars, crcVars, downloadVars, tokenVars>>

StoreInsert ==
    /\ Running
    /\ \E text \in StoreKeyTexts, value \in StoreEntries :
          /\ cache' = Cache_insert(cache, CacheKey_new(text), value)
          /\ lastOp' = Op("insert", "unused", text, "Ok", None)
    /\ UNCHANGED <<store, inserted, loaded, engineVars, crcVars, downloadVars, tokenVars>>

StoreGet ==
    /\ Running
    /\ \E text \in StoreKeyTexts :
          lastOp' = Op("get", "unused", text, "Ok", Cache_get(cache, CacheKey_new(text)))
    /\ UNCHANGED <<cache, store, inserted, loaded, engineVars, crcVars, downloadVars,
                   tokenVars>>

StoreSave ==
    /\ Running
    /\ \E io \in SaveOutcomes :
          LET r == Cache_save(cache, store, io)
          IN  /\ store' = r.file
              /\ lastOp' = Op("save", io, <<>>, r.status, None)
    /\ UNCHANGED <<cache, inserted, loaded, engineVars, crcVars, downloadVars, tokenVars>>

NextStore == StoreLoad \/ StoreInsert \/ StoreGet \/ StoreSave

SpecStore == InitStore /\ [][NextStore]_vars

\* ----------------------------------------------- download specification
\* One call of Downloader::download, step by step.  A file is "absent" or
\* named by what it holds: the .sd0 file "stale" (left by an earlier call),
\* "partial" or "complete"; the output file "old", "partial" or "new".
DownloadStarts ==
    {[pc |-> "start", ret |-> "none", sd0 |-> sd0, out |-> out, dir |-> dir,
      sameDir |-> sameDir, body |-> body, created |-> FALSE] :
        sd0 \in {"absent", "stale"}, out \in {"absent", "old"}, dir \in BOOLEAN,
        sameDir \in BOOLEAN, body \in {"sd0", "garbage"}}

\* the output's directory is the download directory (which exists) or not, and
\* a file lies in a directory that exists
DownloadInputs ==
    {d \in DownloadStarts : (d.sameDir => d.dir) /\ (~d.dir => d.out = "absent")}

\* the ? of a failed step: download returns the error at once
Failed(d) == [d EXCEPT !.pc = "done", !.ret = "Err"]

\* stream_to_file: File::create, then tokio::io::copy
stream_to_file(d, io) ==
    CASE io = "create_failed" -> Failed(d)
      [] io = "copy_failed" -> Failed([d EXCEPT !.sd0 = "partial", !.created = TRUE])
      [] OTHER -> [d EXCEPT !.pc = "streamed", !.sd0 = "complete", !.created = TRUE]

\* decompress_sd0: File::open, SegmentedStream::new, File::create, io::copy
\* into a BufWriter that is dropped without flush()
decompress_sd0(d, io) ==
    CASE io \in {"open_failed", "stream_failed", "create_failed"} -> Failed(d)
      [] io = "copy_failed" -> Failed([d EXCEPT !.out = "partial"])
      [] io = "drop_failed" -> [d EXCEPT !.pc = "decompressed", !.out = "partial"]
      [] OTHER -> [d EXCEPT !.pc = "decompressed", !.out = "new"]

\* what can happen to the decompression of a body: one that is no sd0 stream
\* fails when the stream is opened or read
DecompressOutcomes(body) ==
    IF body = "sd0"
    THEN {"ok", "open_failed", "stream_failed", "create_failed", "copy_failed", "drop_failed"}
    ELSE {"open_failed", "stream_failed", "create_failed", "copy_failed"}

InitDownload ==
    /\ dl \in DownloadInputs
    /\ cache = Cache_new
    /\ store = None
    /\ inserted = <<>>
    /\ loaded = None
    /\ calls = 0
    /\ last = NoCall
    /\ lastOp = NoOp
    /\ crcIn = <<<<>>, <<>>>>
    /\ crcOut = None
    /\ resolveIn = NoToken
    /\ resolveOut = None

\* self.get_bytes_tokio(url).await?
GetBytes ==
    /\ dl.pc = "start"
    /\ \E ok \in BOOLEAN : dl' = IF ok THEN [dl EXCEPT !.pc = "got_bytes"] ELSE Failed(dl)
    /\ UNCHANGED <<cacheVars, engineVars, crcVars, lastOp, tokenVars>>

\* stream_to_file(&sd0_path, &mut byte_stream).await?
StreamToFile ==
    /\ dl.pc = "got_bytes"
    /\ \E io \in {"ok", "create_failed", "copy_failed"} : dl' = stream_to_file(dl, io)
    /\ UNCHANGED <<cacheVars, engineVars, crcVars, lastOp, tokenVars>>

\* tokio::fs::create_dir_all(output_dir).await?, which fails only for a
\* directory that is not there yet
CreateDirAll ==
    /\ dl.pc = "streamed"
    /\ \E ok \in BOOLEAN :
          dl' = IF ok \/ dl.dir THEN [dl EXCEPT !.pc = "dir_ready", !.dir = TRUE]
                ELSE Failed(dl)
    /\ UNCHANGED <<cacheVars, engineVars, crcVars, lastOp, tokenVars>>

\* decompress_sd0(&sd0_path, path)?
DecompressSd0 ==
    /\ dl.pc = "dir_ready"
    /\ \E io \in DecompressOutcomes(dl.body) : dl' = decompress_sd0(dl, io)
    /\ UNCHANGED <<cacheVars, engineVars, crcVars, lastOp, tokenVars>>

\* std::fs::remove_file(&sd0_path)?; Ok(())
RemoveFile ==
    /\ dl.pc = "decompressed"
    /\ \E ok \in BOOLEAN :
          dl' = IF ok THEN [dl EXCEPT !.pc = "done", !.ret = "Ok", !.sd0 = "absent"]
                ELSE Failed(dl)
    /\ UNCHANGED <<cacheVars, engineVars, crcVars, lastOp, tokenVars>>

NextDownload == GetBytes \/ StreamToFile \/ CreateDirAll \/ DecompressSd0 \/ RemoveFile

SpecDownload == InitDownload /\ [][NextDownload]_vars

\* -------------------------------------------------- token specification
\* most pieces an input of Token::resolve is put together from
MaxPieces == 3

OpenBrace == 123
Percent == 37
CloseBrace == 125
LowerZ == 122

\* "installpath"
InstallPathName == <<105, 110, 115, 116, 97, 108, 108, 112, 97, 116, 104>>

\* the end of the match of \{%([a-z]+)\} that starts at i, or 0 when none does
MatchAt(input, i) ==
    LET letters == {k \in (i + 2)..Len(input) :
                       \A m \in (i + 2)..k : input[m] >= LowerA /\ input[m] <= LowerZ}
        j == i + 2 + Cardinality(letters)
    IN  IF /\ i + 3 <= Len(input)
           /\ input[i] = OpenBrace
           /\ input[i + 1] = Percent
           /\ letters # {}
           /\ j <= Len(input)
           /\ input[j] = CloseBrace
        THEN j ELSE 0

\* the start of the leftmost match, or 0
FindMatch(input) ==
    LET starts == {i \in 1..Len(input) : MatchAt(input, i) # 0}
    IN  IF starts = {} THEN 0 ELSE CHOOSE i \in starts : \A o \in starts : i <= o

\* impl Replacer for Token: what replace_append adds to dst
replace_append(install_path, name) ==
    IF name = InstallPathName THEN install_path ELSE <<>>

\* Token::resolve: Regex::replace rewrites the leftmost match only
RECURSIVE Token_resolve_all(_, _)
Token_resolve_all(install_path, input) ==
    LET i == FindMatch(input)
        j == MatchAt(input, i)
    IN  IF i = 0 THEN input
        ELSE SubSeq(input, 1, i - 1)
                 \o replace_append(install_path, SubSeq(input, i + 2, j - 1))
                 \o Token_resolve_all(install_path, SubSeq(input, j + 1, Len(input)))

Token_resolve(install_path, input) ==
    LET i == FindMatch(input)
        j == MatchAt(input, i)
    IN  IF i = 0 THEN input
        ELSE SubSeq(input, 1, i - 1)
                 \o replace_append(install_path, SubSeq(input, i + 2, j - 1))
                 \o SubSeq(input, j + 1, Len(input))

\* the pieces of inputs: "{%installpath}", "{%x}", "\c", "{%" and "}"
PieceInstall == <<OpenBrace, Percent>> \o InstallPathName \o <<CloseBrace>>
PieceOther == <<OpenBrace, Percent, 120, CloseBrace>>
PieceRest == <<BACKSLASH, 99>>
PieceOpen == <<OpenBrace, Percent>>
PieceClose == <<CloseBrace>>
TokenPieces == {PieceInstall, PieceOther, PieceRest, PieceOpen, PieceClose}

\* install paths: "p" and "s\p"
InstallPaths == {<<112>>, <<115, BACKSLASH, 112>>}

TokenInputs ==
    {[install_path |-> p, input |-> FlattenSeq(pieces)] :
        p \in InstallPaths, pieces \in SeqsUpTo(TokenPieces, MaxPieces)}

InitToken ==
    /\ resolveIn \in TokenInputs
    /\ resolveOut = None
    /\ dl = NoDownload
    /\ cache = Cache_new
    /\ store = None
    /\ inserted = <<>>
    /\ loaded = None
    /\ calls = 0
    /\ last = NoCall
    /\ lastOp = NoOp
    /\ crcIn = <<<<>>, <<>>>>
    /\ crcOut = None

Resolve ==
    /\ resolveOut = None
    /\ resolveOut' = Some(Token_resolve(resolveIn.install_path, resolveIn.input))
    /\ UNCHANGED <<resolveIn, cacheVars, engineVars, crcVars, lastOp, downloadVars>>

NextToken == Resolve

SpecToken == InitToken /\ [][NextToken]_vars

\* ------------------------------------------------- checksum specification
InitCrc ==
    /\ crcIn \in CrcInputs
    /\ crcOut = None
    /\ cache = Cache_new
    /\ store = None
    /\ inserted = <<>>
    /\ loaded = None
    /\ calls = 0
    /\ last = NoCall
    /\ lastOp = NoOp
    /\ dl = NoDownload
    /\ resolveIn = NoToken
    /\ resolveOut = None

CalculateCrc ==
    /\ crcOut = None
    /\ crcOut' = Some(<<calculate_crc(crcIn[1]), calculate_crc(crcIn[2])>>)
    /\ UNCHANGED <<crcIn, cacheVars, engineVars, lastOp, downloadVars, tokenVars>>

NextCrc == CalculateCrc

SpecCrc == InitCrc /\ [][NextCrc]_vars

\* -------------------------------------- reference checksum, bit by bit
\* The register as 32 bits, most significant first.
RefBit == {0, 1}
RefReg == [1..32 -> RefBit]

RefPolyBits ==
    <<0,0,0,0, 0,1,0,0, 1,1,0,0, 0,0,0,1, 0,0,0,1, 1,1,0,1, 1,0,1,1, 0,1,1,1>>

RefOnes == [i \in 1..32 |-> 1]

RefByteBit(b, i) == (b \div (2 ^ (8 - i))) % 2

RefMixByte(reg, b) ==
    [i \in 1..32 |-> IF i <= 8 THEN (reg[i] + RefByteBit(b, i)) % 2 ELSE reg[i]]

RefRound(reg) ==
    LET shifted == [i \in 1..32 |-> IF i < 32 THEN reg[i + 1] ELSE 0]
    IN  IF reg[1] = 1
        THEN [i \in 1..32 |-> (shifted[i] + RefPolyBits[i]) % 2]
        ELSE shifted

RefRounds[n \in 0..8, reg \in RefReg] ==
    IF n = 0 THEN reg ELSE RefRounds[n - 1, RefRound(reg)]

RefBytes[reg \in RefReg, bytes \in Seq(Byte)] ==
    IF bytes = <<>> THEN reg
    ELSE RefBytes[RefRounds[8, RefMixByte(reg, Head(bytes))], Tail(bytes)]

RefNormalized(path) ==
    [i \in 1..Len(path) |->
        CASE path[i] = SLASH -> BACKSLASH
          [] path[i] \in UpperA..UpperZ -> path[i] + 32
          [] OTHER -> path[i]]

\* register starting at all ones, the bytes as given, four zero bytes, no complement
RefCrcRaw(bytes) == RefBytes[RefOnes, bytes \o <<0, 0, 0, 0>>]

RefCrc(path) == RefCrcRaw(RefNormalized(path))

\* the 32 bits of a <<hi, lo>> pair, most significant first
BitsOfU32(x) ==
    [i \in 1..32 |->
        IF i <= 16 THEN (x[1] \div (2 ^ (16 - i))) % 2
        ELSE (x[2] \div (2 ^ (32 - i))) % 2]

\* 0xC704DD7B, the register after the four zero bytes alone
CrcOfEmptyPath == <<50948, 56699>>

\* p and q differ at most in slash direction and in the case of ASCII letters
SameUpToSlashAndCase(p, q) ==
    /\ Len(p) = Len(q)
    /\ \A i \in 1..Len(p) :
          \/ p[i] = q[i]
          \/ {p[i], q[i]} = {SLASH, BACKSLASH}
          \/ \E u \in UpperA..UpperZ : {p[i], q[i]} = {u, u + 32}

PlainBytes(p) == \A i \in 1..Len(p) : p[i] # SLASH /\ p[i] \notin UpperA..UpperZ

\* C9: two byte sequences that differ only in slash direction or in the case
\* of ASCII letters get the same checksum, and a sequence holding neither '/'
\* nor 'A'..'Z' is mixed into the register byte for byte as it stands.
C9_ChecksumNormalization ==
    crcOut # None =>
        /\ SameUpToSlashAndCase(crcIn[1], crcIn[2]) => crcOut[1][1] = crcOut[1][2]
        /\ \A k \in 1..2 :
              PlainBytes(crcIn[k]) => BitsOfU32(crcOut[1][k]) = RefCrcRaw(crcIn[k])

C9_Witness ==
    /\ crcOut # None
    /\ crcIn[1] = <<UpperA, SLASH>>
    /\ crcIn[2] = <<LowerA, BACKSLASH>>
    /\ crcOut[1][1] = crcOut[1][2]

\* C10: calculate_crc is the reference computation (register from all ones,
\* every normalized byte and then four zero bytes mixed in by eight
\* shift-and-conditionally-xor rounds, no final complement); the empty path
\* gives the fixed value 0xC704DD7B and every result fits in 32 bits.
C10_ChecksumAlgorithm ==
    crcOut # None =>
        \A k \in 1..2 :
            /\ crcOut[1][k] \in U32
            /\ BitsOfU32(crcOut[1][k]) = RefCrc(crcIn[k])
            /\ crcIn[k] = <<>> => crcOut[1][k] = CrcOfEmptyPath

C10_Witness ==
    /\ crcOut # None
    /\ crcIn[1] = <<>>
    /\ crcOut[1][1] = CrcOfEmptyPath

\* ------------------------------------------------ the last call, observed
\* slashes of a key text turned into backslashes
Backslashed(text) ==
    [i \in 1..Len(text) |-> IF text[i] = SLASH THEN BACKSLASH ELSE text[i]]

\* the prefix of the area a call resolves against
LastPrefix == IF last.op = "ensure_meta" THEN downloaddirectory \o <<SLASH>> ELSE <<>>

\* the cache key of the last call's file: prefix + file path, normalized
LastKey == Backslashed(LastPrefix \o last.file)

\* the last call was ensure_file of a file whose checksum the pack index holds
LastArchived == last.op = "ensure_file" /\ FileCrc[last.file] \in DOMAIN last.pki.files

\* the pack index entry of the last call's file names an archive of the index
LastArchiveListed ==
    last.pki.files[FileCrc[last.file]].pack_file < Len(last.pki.archives)

\* the last call went through Patcher::ensure
LastReachedEnsure == last.op = "ensure_meta" \/ (last.op = "ensure_file" /\ ~LastArchived)

LastInManifest == last.file \in DOMAIN last.manifest

\* before the call the cache held an entry under the key with the manifest's hash
LastHashMatched ==
    /\ LastKey \in DOMAIN last.before
    /\ last.before[LastKey].hash = last.manifest[last.file].hash

\* C1: ensure_file of a file whose path checksum is a key of the pack index's
\* files makes no download, no cache lookup and no cache insertion, and leaves
\* the cache as it was, whatever the manifest and the cache hold.
C1_ArchiveShadowing ==
    LastArchived =>
        /\ last.downloads = 0
        /\ last.gets = 0
        /\ last.inserts = 0
        /\ cache = last.before

\* an archived file that is in the manifest with a stale entry in the cache
C1_Witness ==
    /\ LastArchived
    /\ LastInManifest
    /\ LastKey \in DOMAIN last.before
    /\ ~LastHashMatched
    /\ last.downloads = 0
    /\ cache = last.before

\* C2: for a file of the manifest whose cache entry under the file's key has
\* the manifest's hash, ensure downloads nothing and leaves the cache as it
\* was, whatever the entry's mtime and size are.
C2_CacheHit ==
    (LastReachedEnsure /\ LastInManifest /\ LastHashMatched) =>
        /\ last.downloads = 0
        /\ last.inserts = 0
        /\ cache = last.before

\* a hit on an entry without mtime whose size is not the manifest's
C2_Witness ==
    /\ LastReachedEnsure
    /\ LastInManifest
    /\ LastHashMatched
    /\ last.before[LastKey].mtime = None
    /\ last.before[LastKey].size # last.manifest[last.file].filesize
    /\ last.downloads = 0

\* the entry the manifest declares for the last call's file is in the cache
\* under the file's key, with a modification time
LastEntryFresh ==
    /\ LastKey \in DOMAIN cache
    /\ cache[LastKey].hash = last.manifest[last.file].hash
    /\ cache[LastKey].size = last.manifest[last.file].filesize
    /\ cache[LastKey].mtime # None

\* C3 as claimed: the entry is fresh as soon as Downloader::download succeeded
C3_AsClaimed ==
    (LastReachedEnsure /\ LastInManifest /\ ~LastHashMatched) =>
        /\ last.downloads = 1
        /\ last.io \in {"ok", "metadata_failed"} => LastEntryFresh

\* C3: for a file of the manifest whose cache entry is absent or has another
\* hash, ensure attempts exactly one download, and when the download and the
\* read-back of the file's metadata both succeed, the cache entry under the
\* file's key has the manifest's hash and size and a present mtime.
C3_Staleness ==
    (LastReachedEnsure /\ LastInManifest /\ ~LastHashMatched) =>
        /\ last.downloads = 1
        /\ last.io = "ok" => LastEntryFresh

\* a stale entry overwritten after a successful fetch
C3_Witness ==
    /\ LastReachedEnsure
    /\ LastInManifest
    /\ LastKey \in DOMAIN last.before
    /\ last.before[LastKey].hash # last.manifest[last.file].hash
    /\ last.io = "ok"
    /\ last.downloads = 1
    /\ LastEntryFresh

\* C4: for a file name that is not in the manifest, ensure (through
\* ensure_meta, or through ensure_file when the file is not archived)
\* downloads nothing, leaves the cache as it was and returns no error.
C4_UnknownFile ==
    (LastReachedEnsure /\ ~LastInManifest) =>
        /\ last.downloads = 0
        /\ last.inserts = 0
        /\ cache = last.before
        /\ last.ret \in {"Ok(true)", "Ok(false)"}

C4_Witness ==
    /\ last.op = "ensure_file"
    /\ ~LastArchived
    /\ ~LastInManifest
    /\ last.before # <<>>
    /\ last.ret = "Ok(false)"
    /\ cache = last.before

\* the outcomes of Patcher::ensure, read off the call's inputs
LastCacheHit == LastInManifest /\ LastHashMatched
LastFetched == LastInManifest /\ ~LastHashMatched /\ last.io = "ok"
LastFetchFailed == LastInManifest /\ ~LastHashMatched /\ last.io # "ok"

\* C5: ensure returns true exactly when the file is in the manifest and the
\* outcome is CACHE_HIT or FETCHED, false when the file is not in the
\* manifest, and an error, never a boolean, when the fetch failed.
C5_EnsureReturn ==
    LastReachedEnsure =>
        /\ last.ret = "Ok(true)" <=> (LastCacheHit \/ LastFetched)
        /\ ~LastInManifest => last.ret = "Ok(false)"
        /\ last.ret = "Ok(false)" => ~LastInManifest
        /\ LastFetchFailed => last.ret = "Err"

C5_Witness ==
    /\ LastReachedEnsure
    /\ LastFetchFailed
    /\ last.io = "metadata_failed"
    /\ last.ret = "Err"

\* C6 as claimed: ensure_file of an archived file returns true
C6_AsClaimed == (LastArchived /\ LastArchiveListed) => last.ret = "Ok(true)"

\* C6: ensure_file of a file whose checksum is in the pack index, with an
\* entry that names an archive of the index, returns Ok(false): no error, and
\* the file is not reported as ensured.
C6_ArchivedReturn == (LastArchived /\ LastArchiveListed) => last.ret = "Ok(false)"

C6_Witness ==
    /\ LastArchived
    /\ last.file = FileUpperA
    /\ last.ret = "Ok(false)"

\* the cache holds an entry with the manifest's hash for every file of the
\* manifest, under the keys of the area the last call resolved against
Populated(entries) ==
    \A file \in DOMAIN last.manifest :
        LET key == Backslashed(LastPrefix \o file)
        IN  key \in DOMAIN entries /\ entries[key].hash = last.manifest[file].hash

\* C7: a call of the engine for a manifest whose files all have a
\* hash-matching entry in the cache downloads nothing, leaves the text that
\* save writes as it was, and leaves the cache populated for that manifest, so
\* that a run over every file, repeated any number of times, downloads nothing
\* and saves the same bytes.
C7_SyncIdempotence ==
    (last.op # "none" /\ Populated(last.before)) =>
        /\ last.downloads = 0
        /\ FormatCache(cache) = FormatCache(last.before)
        /\ Populated(cache)

\* a second call for a populated manifest of two files, one entry from the
\* cache file and one fetched by the call before
C7_Witness ==
    /\ last.op = "ensure_meta"
    /\ last.manifest = ManifestOne
    /\ LastInManifest
    /\ Populated(last.before)
    /\ last.downloads = 0
    /\ FormatCache(cache) = FormatCache(last.before)

\* -------------------------------------------------- the saved cache, read
InsertedKeys == {inserted[i][1] : i \in 1..Len(inserted)}

\* the value of the last insert under the key
LastInserted(key) ==
    LET i == CHOOSE j \in 1..Len(inserted) :
                 /\ inserted[j][1] = key
                 /\ \A k \in (j + 1)..Len(inserted) : inserted[k][1] # key
    IN  inserted[i][2]

\* equal in the presence of mtime, in size and in hash
SameEntry(a, b) ==
    /\ (a.mtime = None) <=> (b.mtime = None)
    /\ a.size = b.size
    /\ a.hash = b.hash

RoundTripped ==
    /\ loaded[1].status = "Ok"
    /\ DOMAIN loaded[1].entries = InsertedKeys
    /\ \A key \in InsertedKeys : SameEntry(loaded[1].entries[key], LastInserted(key))

\* C8: after any inserts, save, and load into a fresh cache, the loaded cache
\* holds under every inserted key an entry equal (mtime presence, size, hash)
\* to the last one inserted under it, and holds no other key.
C8_CacheRoundTrip == loaded # None => RoundTripped

\* The round trip of caches none of whose keys holds ',' or a line break.
PlainKey(key) == \A i \in 1..Len(key) : key[i] \notin {COMMA, NEWLINE, CR}

RoundTripOfPlainKeys ==
    (loaded # None /\ \A key \in InsertedKeys : PlainKey(key)) => RoundTripped

\* ------------------------------------------- the cache in use, observed
NoSlash(key) == \A i \in 1..Len(key) : key[i] # SLASH

\* C11: after any load, insert and get, no key stored in the cache holds '/',
\* and a lookup with the key built from a path gives the same entry as a
\* lookup with the key built from that path written with backslashes.
C11_KeyNormalization ==
    /\ \A key \in DOMAIN cache : NoSlash(key)
    /\ \A text \in StoreKeyTexts :
          Cache_get(cache, CacheKey_new(text)) = Cache_get(cache, CacheKey_new(Backslashed(text)))

\* insert, get and save keep a cache of normalized keys normalized
KeysNormalizedWithoutLoad ==
    (lastOp.op # "load" /\ \A key \in DOMAIN lastOp.before : NoSlash(key)) =>
        \A key \in DOMAIN cache : NoSlash(key)

\* the last operation was a load, and the lines of the file it was given
LastLoad == lastOp.op = "load"
LastLoadLines == ReadLines(lastOp.storeBefore[1])

\* the fields of a line
FieldsOf(line) == SplitOn(line, COMMA)

\* a line with fewer than four fields, or whose size or hash does not parse
MissingOrBadField(line) ==
    \/ Len(FieldsOf(line)) < 4
    \/ ~(FieldsOf(line)[3] # <<>> /\ IsDigits(FieldsOf(line)[3]))
    \/ ~(Len(FieldsOf(line)[4]) = 2 * HashLen
            /\ \A i \in 1..Len(FieldsOf(line)[4]) : HexValue(FieldsOf(line)[4][i]) >= 0)

\* how many lines a load reads before the read error of its outcome
LinesBeforeReadError ==
    LET k == IF lastOp.io = "read_failed_first" THEN 0 ELSE 1
    IN  IF k < Len(LastLoadLines) THEN k ELSE Len(LastLoadLines)

\* C13: load of a store that does not exist returns Ok and leaves the cache as
\* it was (a new cache stays empty); a failure of File::open other than
\* NotFound is returned as an error, and so is a failure to read a line,
\* unless a malformed line read before it ended the process.
C13_MissingStore ==
    LastLoad =>
        /\ (lastOp.storeBefore = None /\ lastOp.io # "open_failed") =>
              (lastOp.ret = "Ok" /\ cache = lastOp.before)
        /\ lastOp.io = "open_failed" => (lastOp.ret = "Err" /\ cache = lastOp.before)
        /\ (lastOp.storeBefore # None /\ lastOp.io \in {"read_failed_first", "read_failed_second"}) =>
              /\ lastOp.ret \in {"Err", "panic"}
              /\ lastOp.ret = "panic" =>
                    \E i \in 1..LinesBeforeReadError : MissingOrBadField(LastLoadLines[i])

\* a new cache, loaded from a file that does not exist
C13_Witness ==
    /\ LastLoad
    /\ lastOp.storeBefore = None
    /\ lastOp.io = "ok"
    /\ lastOp.before = Cache_new
    /\ lastOp.ret = "Ok"
    /\ cache = Cache_new

\* ------------------------------------------------ the two areas, observed
\* the key the other area's prefix gives the last call's file
OtherPrefix == IF last.op = "ensure_meta" THEN <<>> ELSE downloaddirectory \o <<SLASH>>
OtherKey == Backslashed(OtherPrefix \o last.file)

\* before the call the cache held an entry with the manifest's hash under the
\* key the other area gives the file
OtherHashMatched ==
    /\ OtherKey \in DOMAIN last.before
    /\ last.before[OtherKey].hash = last.manifest[last.file].hash

\* C12: the key a file path gets in the download area is not the key it gets
\* in the install area: a call for the path in one area leaves the entry under
\* the other area's key as it was, and does not take that entry for its own
\* (with a matching hash there and none under its own key, it downloads).
C12_AreaSeparation ==
    LastReachedEnsure =>
        /\ LastKey # OtherKey
        /\ Cache_get(cache, OtherKey) = Cache_get(last.before, OtherKey)
        /\ (LastInManifest /\ OtherHashMatched /\ ~LastHashMatched) => last.downloads = 1

\* a fetch in the download area of a path whose install-area entry matches
C12_Witness ==
    /\ last.op = "ensure_meta"
    /\ LastInManifest
    /\ OtherHashMatched
    /\ ~LastHashMatched
    /\ last.io = "ok"
    /\ last.downloads = 1
    /\ cache[LastKey] # cache[OtherKey]
    /\ cache[OtherKey] = last.before[OtherKey]

\* C15: when Downloader::download or the read-back of the metadata fails,
\* ensure returns an error, has called download once, and leaves the cache as
\* it was; the cache changes only in a call whose fetch succeeded.
C15_FetchFailure ==
    LastReachedEnsure =>
        /\ (last.downloads > 0 /\ last.io # "ok") =>
              /\ last.ret = "Err"
              /\ last.downloads = 1
              /\ last.inserts = 0
              /\ cache = last.before
        /\ cache # last.before => (last.downloads = 1 /\ last.io = "ok")

\* the read-back fails for a file whose entry is stale: the entry stays
C15_Witness ==
    /\ LastReachedEnsure
    /\ LastInManifest
    /\ LastKey \in DOMAIN last.before
    /\ ~LastHashMatched
    /\ last.io = "metadata_failed"
    /\ last.ret = "Err"
    /\ cache[LastKey] = last.before[LastKey]

\* a call through ensure for a file of the manifest, right after a call that
\* inserted an entry
HitAfterInsert ==
    /\ calls' = calls + 1
    /\ last.inserts = 1
    /\ LastReachedEnsure'
    /\ LastInManifest'
    /\ last'.downloads = 0

\* the hit read an entry the call before did not write
NotOwedToInsert == Cache_get(last'.before, LastKey') = Cache_get(last.before, LastKey')

\* C19 as claimed: a hit owed to the entry the call before inserted is a hit
\* of the same file in the same area
C19_AsClaimed ==
    [][(HitAfterInsert /\ ~NotOwedToInsert) => (last'.op = last.op /\ last'.file = last.file)]_vars

\* C19: keys are injective over the text prefix + file path after slash
\* normalization: a hit owed to the entry the call before inserted is a hit of
\* a call that builds the same normalized text, and a call that builds the
\* same text for a file with the same hash is a hit.
C19_KeyedByPrefixedPath ==
    [][/\ (HitAfterInsert /\ ~NotOwedToInsert) => LastKey' = LastKey
       /\ (/\ calls' = calls + 1
           /\ last.inserts = 1
           /\ LastReachedEnsure'
           /\ LastInManifest'
           /\ LastKey' = LastKey
           /\ last'.manifest[last'.file].hash = last.manifest[last.file].hash)
              => last'.downloads = 0]_vars

\* ensure_file of "v/a" hits the entry ensure_meta of "a" inserted
C19_Witness ==
    /\ calls = 2
    /\ last.op = "ensure_file"
    /\ last.file = FileVA
    /\ LastReachedEnsure
    /\ LastInManifest
    /\ last.downloads = 0
    /\ last.before[LastKey].size = 10
    /\ last.before[LastKey].mtime # None

\* ------------------------------------------------- the cache file, observed
\* a decimal number: digits with at most one '.', and at least one digit
IsDecimal(s) ==
    /\ \A i \in 1..Len(s) : s[i] = PERIOD \/ (s[i] >= Digit0 /\ s[i] <= Digit9)
    /\ Cardinality({i \in 1..Len(s) : s[i] = PERIOD}) <= 1
    /\ \E i \in 1..Len(s) : s[i] # PERIOD

\* a line whose mtime field is neither empty nor a decimal number
BadMtime(line) ==
    /\ Len(FieldsOf(line)) >= 2
    /\ FieldsOf(line)[2] # <<>>
    /\ ~IsDecimal(FieldsOf(line)[2])

\* the last operation was a load that opened the file and read all of it
LastLoadRead == LastLoad /\ lastOp.io = "ok" /\ lastOp.storeBefore # None

\* C14 as claimed: a line with a missing field, an unparsable size or hash, or
\* an mtime that is neither empty nor a decimal number makes load fail
C14_AsClaimed ==
    (LastLoadRead /\ \E i \in 1..Len(LastLoadLines) :
                        MissingOrBadField(LastLoadLines[i]) \/ BadMtime(LastLoadLines[i]))
        => lastOp.ret = "panic"

\* the line is the last one of the file with its key
LastOfKey(i) ==
    \A j \in (i + 1)..Len(LastLoadLines) :
        FieldsOf(LastLoadLines[j])[1] # FieldsOf(LastLoadLines[i])[1]

\* C14: load of a file with a line that has fewer than four fields, or whose
\* size or hash does not parse, ends in a panic and does not return; an mtime
\* field that is not a number is no failure: a load that returns Ok has
\* stored, for every line, the line's size under the line's key, with an
\* absent mtime exactly when the mtime field is not a decimal number.
C14_MalformedLine ==
    LastLoadRead =>
        /\ (\E i \in 1..Len(LastLoadLines) : MissingOrBadField(LastLoadLines[i]))
              => lastOp.ret = "panic"
        /\ lastOp.ret = "Ok" =>
              \A i \in 1..Len(LastLoadLines) :
                  LET f == FieldsOf(LastLoadLines[i])
                  IN  /\ f[1] \in DOMAIN cache
                      /\ LastOfKey(i) =>
                            /\ cache[f[1]].size = DigitsValue(f[3])
                            /\ cache[f[1]].mtime = None <=> ~IsDecimal(f[2])

\* a file whose second line lacks the hash
C14_Witness ==
    /\ LastLoadRead
    /\ LastLoadLines = <<LineFresh, LineShort>>
    /\ lastOp.ret = "panic"

\* the file holds one line "key,entry" for every key of the cache, the keys
\* strictly ascending, and nothing else
StoreHoldsCache ==
    /\ store # None
    /\ \E keys \in [1..Cardinality(DOMAIN cache) -> DOMAIN cache] :
          /\ \A i, j \in 1..Len(keys) : i < j => StrLess(keys[i], keys[j])
          /\ store[1] = StoreText([i \in 1..Len(keys) |->
                            keys[i] \o <<COMMA>> \o FormatCacheEntry(cache[keys[i]])])

\* C17: after a save that returned Ok, the file holds exactly one record per
\* key of the cache, in strictly ascending key order, and nothing of what it
\* held before.
C17_SaveReplacesAndSorts == (lastOp.op = "save" /\ lastOp.ret = "Ok") => StoreHoldsCache

\* A save all of whose writes reached the file.
SaveWithoutFailure == (lastOp.op = "save" /\ lastOp.io = "ok") => StoreHoldsCache

\* ------------------------------------------------ the download, observed
\* C16: when Downloader::download has returned, with Ok or with the error of
\* any step, the .sd0 file it created in the download directory is gone.
C16_TempRemoved == (dl.pc = "done" /\ dl.created) => dl.sd0 = "absent"

\* A download that returned Ok has removed the .sd0 file.
TempRemovedOnSuccess == dl.ret = "Ok" => dl.sd0 = "absent"

\* ------------------------------------------------- the token, observed
\* the text with every "{%installpath}" replaced and all else kept
RECURSIVE Substituted(_, _)
Substituted(input, install_path) ==
    IF input = <<>> THEN <<>>
    ELSE IF Len(input) >= Len(PieceInstall) /\ SubSeq(input, 1, Len(PieceInstall)) = PieceInstall
    THEN install_path \o Substituted(SubSeq(input, Len(PieceInstall) + 1, Len(input)), install_path)
    ELSE <<Head(input)>> \o Substituted(Tail(input), install_path)

\* C18 as claimed: resolve returns the input with {%installpath} replaced by
\* the install path and every other character left as it is
C18_AsClaimed ==
    resolveOut # None => resolveOut[1] = Substituted(resolveIn.input, resolveIn.install_path)

\* input[i..j] is "{%", one or more lower-case letters, "}"
IsPlaceholder(input, i, j) ==
    /\ i + 3 <= j
    /\ input[i] = OpenBrace
    /\ input[i + 1] = Percent
    /\ \A k \in (i + 2)..(j - 1) : input[k] \in LowerA..LowerZ
    /\ input[j] = CloseBrace

HasPlaceholder(input) ==
    \E i \in 1..Len(input), j \in 1..Len(input) : IsPlaceholder(input, i, j)

\* C18: resolve returns the input with its first placeholder {%name} replaced,
\* by the install path when name is installpath and by nothing otherwise, and
\* every other character, later placeholders included, left as it is and in
\* the same order; an input without placeholder is returned as it is.
C18_FirstPlaceholder ==
    resolveOut # None =>
        LET input == resolveIn.input
        IN  IF ~HasPlaceholder(input) THEN resolveOut[1] = input
            ELSE \E i \in 1..Len(input), j \in 1..Len(input) :
                    /\ IsPlaceholder(input, i, j)
                    /\ \A a \in 1..(i - 1), b \in 1..Len(input) : ~IsPlaceholder(input, a, b)
                    /\ resolveOut[1] =
                          SubSeq(input, 1, i - 1)
                              \o (IF SubSeq(input, i + 2, j - 1) = InstallPathName
                                  THEN resolveIn.install_path ELSE <<>>)
                              \o SubSeq(input, j + 1, Len(input))

\* the template "{%installpath}\c" with the install path "s\p" gives "s\p\c"
C18_Witness ==
    /\ resolveIn.input = PieceInstall \o PieceRest
    /\ resolveIn.install_path = <<115, BACKSLASH, 112>>
    /\ resolveOut = Some(<<115, BACKSLASH, 112, BACKSLASH, 99>>)

====
